---------------------------- MODULE Spec2Model ----------------------------
(***************************************************************************)
(* Verification model of the protocol-agnostic replication core:           *)
(*   - the FIFO token enforcer (source / sink) that orders the operations  *)
(*     of one origin at a store (concurrency/fifo_enforcer.hpp, included   *)
(*     by src/src/protocol_api.hpp but not part of the sources at hand);   *)
(*   - the master's read and write handlers (src/src/clustering/master.hpp)*)
(*     on top of the mirror dispatcher and its mirrors;                    *)
(*   - the registrant (src/src/clustering/registrant.hpp);                 *)
(*   - the region map, and the store views and subviews with their       *)
(*     metainfo (src/src/protocol_api.hpp).                               *)
(* Each part has its own specification over the shared variable list; the  *)
(* variables of the other parts stay at their initial values.              *)
(***************************************************************************)
EXTENDS Integers, Sequences, FiniteSets, TLC

VARIABLES
    \* ---- master, mirror dispatcher and mirrors --------------------------
    mirror_status,  \* per mirror: "absent", "registered", "lost"
    mirror_data,    \* per mirror: the mirror_data_t it registered with
    timestamp,      \* the dispatcher's current timestamp
    req,            \* per client request: the state of its handler
    stream,         \* per mirror: the messages sent to it, in delivery order
    applied,        \* per mirror: the writes its store has applied, in order
    \* ---- FIFO token enforcer -------------------------------------------
    source_state,   \* the source's [timestamp, num_reads]
    sink_state,     \* the sink's   [timestamp, num_reads]
    tokens,         \* the tokens in issue order
    tstate,         \* per token: "issued", "waiting", "active", "released"
    store,          \* the store behind the sink: the writes applied, in order
    effect,         \* per token: what the operation saw when it was performed
    arrivals,       \* the tokens in the order their holders reached the sink
    \* ---- registrants ---------------------------------------------------
    reg_pc,         \* per registrant: where its constructor / lifetime is
    deregisterer,   \* per registrant: death_runner_t::fun (NoFun if unset)
    reg_exc,        \* per registrant: what its constructor ended with
    registrar_failed, \* the registrar resource's failed signal is pulsed
    lost_at,        \* per registrant: its reg_pc when the signal pulsed
    wire,           \* the messages sent to the registrar's mailboxes
    \* ---- region map ----------------------------------------------------
    rmap,           \* a region_map_t: regions_and_values
    rm_op,          \* what was done with rmap last: "none", "new", "mask",
                    \* "update", or a comparison: "equal", "unequal"
    \* ---- store view and subviews -----------------------------------------
    metainfo,       \* the metainfo of the store: a region map of blobs
    sv_op,          \* the last operation on the store: which, through which
                    \* view, with which new metainfo
    \* ---- calls through a subview ---------------------------------------
    build,          \* how the program was built: "unset", "debug", "release"
    sub_call,       \* the subview and the last call made through it
    \* ---- teardown of the master -----------------------------------------
    destroyed,      \* how many of the master's members have been destroyed
    keepalive,      \* who holds an auto_drainer_t::lock_t of the drainer
    handler,        \* per delivery: the state of the handler it started
    \* ---- cond_t ---------------------------------------------------------
    cond,           \* per cond_t: its home thread, its state, where its
                    \* state was changed, and the call of pulse() on it
    \* ---- one_waiter_cond_t ----------------------------------------------
    owc             \* per one_waiter_cond_t: its fields, and where its
                    \* waiter and the caller of pulse() are

fifoVars ==
    <<source_state, sink_state, tokens, tstate, store, effect, arrivals>>

dispVars == <<mirror_status, mirror_data, timestamp, req, stream, applied>>

regVars == <<reg_pc, deregisterer, reg_exc, registrar_failed, lost_at, wire>>

mapVars == <<rmap, rm_op>>

storeVars == <<metainfo, sv_op>>

subVars == <<build, sub_call>>

downVars == <<destroyed, keepalive, handler>>

condVars == <<cond>>

owcVars == <<owc>>

vars ==
    <<dispVars, fifoVars, regVars, mapVars, storeVars, subVars, downVars,
      condVars, owcVars>>

\* The variables of the other parts, which an action of a part leaves alone.
nonDispVars == <<fifoVars, regVars, mapVars, storeVars, subVars, downVars, condVars, owcVars>>
nonFifoVars == <<dispVars, regVars, mapVars, storeVars, subVars, downVars, condVars, owcVars>>
nonRegVars == <<dispVars, fifoVars, mapVars, storeVars, subVars, downVars, condVars, owcVars>>
nonMapVars == <<dispVars, fifoVars, regVars, storeVars, subVars, downVars, condVars, owcVars>>
nonStoreVars == <<dispVars, fifoVars, regVars, mapVars, subVars, downVars, condVars, owcVars>>
nonSubVars == <<dispVars, fifoVars, regVars, mapVars, storeVars, downVars, condVars, owcVars>>
nonDownVars == <<dispVars, fifoVars, regVars, mapVars, storeVars, subVars, condVars, owcVars>>
nonCondVars == <<dispVars, fifoVars, regVars, mapVars, storeVars, subVars, downVars, owcVars>>
nonOwcVars == <<dispVars, fifoVars, regVars, mapVars, storeVars, subVars, downVars, condVars>>

(***************************************************************************)
(* Bounds of the model.                                                    *)
(***************************************************************************)
MaxTokens == 4
NumMirrors == 2
MaxRequests == 2
MaxLost == 1
NumRegistrants == 2
NumKeys == 3
MaxHandlers == 3
NumThreads == 3
NumConds == 2
NumOneWaiterConds == 3

(***************************************************************************)
(*                 MASTER, MIRROR DISPATCHER, MIRRORS                      *)
(***************************************************************************)
Mirrors == 1..NumMirrors
Requests == 1..MaxRequests

\* The timestamp of the initial store, at which the dispatcher starts.
InitialTimestamp == 0

\* mirror_data_t: the mailbox addresses a mirror publishes; an address that
\* a constructor leaves unset is nil (FALSE).
mirror_data_t ==
    [write_mailbox |-> FALSE, writeread_mailbox |-> FALSE,
     read_mailbox |-> FALSE]

mirror_data_t_wm ==
    [write_mailbox |-> TRUE, writeread_mailbox |-> FALSE,
     read_mailbox |-> FALSE]

mirror_data_t_wm_wrm_rm ==
    [write_mailbox |-> TRUE, writeread_mailbox |-> TRUE,
     read_mailbox |-> TRUE]

\* What a mirror registers with: a mirror that cannot serve reads yet
\* publishes its write mailbox only.
MirrorData == {mirror_data_t_wm, mirror_data_t_wm_wrm_rm}

\* What a call of the dispatcher ends with: a response, delivered by mirror
\* `from`, or an exception.
Returned(m) == [thrown |-> FALSE, what |-> "", from |-> m]
Thrown(exc) == [thrown |-> TRUE, what |-> exc, from |-> 0]
NoResult == [thrown |-> FALSE, what |-> "", from |-> 0]

\* The two payloads of the reply variant.
ResponseMsg(m) == [which |-> "response", from |-> m, what |-> ""]
StringMsg(w) == [which |-> "string", from |-> 0, what |-> w]

NewRequest ==
    [kind |-> "none", pc |-> "idle", timestamp |-> 0, target |-> {},
     cand |-> {}, sent |-> {}, acked |-> {}, resp |-> {},
     outcome |-> NoResult, replies |-> <<>>, escaped |-> FALSE]

InitDisp ==
    /\ mirror_status = [m \in Mirrors |-> "absent"]
    /\ mirror_data = [m \in Mirrors |-> mirror_data_t]
    /\ timestamp = InitialTimestamp
    /\ req = [r \in Requests |-> NewRequest]
    /\ stream = [m \in Mirrors |-> <<>>]
    /\ applied = [m \in Mirrors |-> <<>>]

Registered == {m \in Mirrors : mirror_status[m] = "registered"}
Lost == {m \in Mirrors : mirror_status[m] = "lost"}
WritereadCapable == {m \in Registered : mirror_data[m].writeread_mailbox}
ReadCapable == {m \in Registered : mirror_data[m].read_mailbox}

\* Request r can be delivered to the master's mailbox of kind k: requests
\* are numbered in the order of their delivery, and a handler that is back
\* at its start keeps its kind.
Delivered(r, k) ==
    /\ req[r].pc \in {"idle", "recv"}
    /\ req[r].pc = "idle" => \A q \in 1..(r - 1) : req[q].pc # "idle"
    /\ req[r].pc = "recv" => req[r].kind = k

\* The registrar's callback adds a mirror, with the data it published;
\* mirrors are numbered in the order of their registration.
Register(m, d) ==
    /\ mirror_status[m] = "absent"
    /\ \A n \in 1..(m - 1) : mirror_status[n] # "absent"
    /\ mirror_status' = [mirror_status EXCEPT ![m] = "registered"]
    /\ mirror_data' = [mirror_data EXCEPT ![m] = d]
    /\ UNCHANGED <<timestamp, req, stream, applied>>
    /\ UNCHANGED nonDispVars

\* The liveness signal of a mirror pulses: it leaves the live set with the
\* data it published, and what was still on its way to it is dropped.
Lose(m) ==
    /\ mirror_status[m] = "registered"
    /\ Cardinality(Lost) < MaxLost
    /\ mirror_status' = [mirror_status EXCEPT ![m] = "lost"]
    /\ mirror_data' = [mirror_data EXCEPT ![m] = mirror_data_t]
    /\ stream' = [stream EXCEPT ![m] = <<>>]
    /\ UNCHANGED <<timestamp, req, applied>>
    /\ UNCHANGED nonDispVars

\* master_t::on_write from the point where mirror_dispatcher->write() ends
\* with `result`: what is sent to response_address, whether an exception
\* leaves the handler, and where the handler goes next.
on_write_no_catch_lost(result) ==
    IF ~result.thrown
    THEN [sent |-> <<ResponseMsg(result.from)>>, escaped |-> FALSE,
          next |-> "done"]
    ELSE IF result.what = "insufficient_mirrors_exc_t"
    THEN [sent |-> <<StringMsg(result.what)>>, escaped |-> FALSE,
          next |-> "done"]
    ELSE [sent |-> <<>>, escaped |-> TRUE, next |-> "done"]

on_write_no_catch_insufficient(result) ==
    IF ~result.thrown
    THEN [sent |-> <<ResponseMsg(result.from)>>, escaped |-> FALSE,
          next |-> "done"]
    ELSE IF result.what = "mirror_lost_exc_t"
    THEN [sent |-> <<StringMsg(result.what)>>, escaped |-> FALSE,
          next |-> "done"]
    ELSE [sent |-> <<>>, escaped |-> TRUE, next |-> "done"]

on_write_reply_twice(result) ==
    IF ~result.thrown
    THEN [sent |-> <<ResponseMsg(result.from), ResponseMsg(result.from)>>,
          escaped |-> FALSE, next |-> "done"]
    ELSE [sent |-> <<StringMsg(result.what)>>, escaped |-> FALSE,
          next |-> "done"]

on_write(result) ==
    IF ~result.thrown
    THEN [sent |-> <<ResponseMsg(result.from)>>, escaped |-> FALSE,
          next |-> "done"]
    ELSE IF result.what = "mirror_lost_exc_t"
    THEN [sent |-> <<StringMsg(result.what)>>, escaped |-> FALSE,
          next |-> "done"]
    ELSE IF result.what = "insufficient_mirrors_exc_t"
    THEN [sent |-> <<StringMsg(result.what)>>, escaped |-> FALSE,
          next |-> "done"]
    ELSE [sent |-> <<>>, escaped |-> TRUE, next |-> "done"]

\* master_t::on_read, likewise.
on_read_no_catch_insufficient(result) ==
    IF ~result.thrown
    THEN [sent |-> <<ResponseMsg(result.from)>>, escaped |-> FALSE,
          next |-> "done"]
    ELSE IF result.what = "mirror_lost_exc_t"
    THEN [sent |-> <<StringMsg(result.what)>>, escaped |-> FALSE,
          next |-> "done"]
    ELSE [sent |-> <<>>, escaped |-> TRUE, next |-> "done"]

on_read_retry(result) ==
    IF ~result.thrown
    THEN [sent |-> <<ResponseMsg(result.from)>>, escaped |-> FALSE,
          next |-> "done"]
    ELSE IF result.what = "mirror_lost_exc_t"
    THEN [sent |-> <<>>, escaped |-> FALSE, next |-> "recv"]
    ELSE [sent |-> <<StringMsg(result.what)>>, escaped |-> FALSE,
          next |-> "done"]

on_read(result) ==
    IF ~result.thrown
    THEN [sent |-> <<ResponseMsg(result.from)>>, escaped |-> FALSE,
          next |-> "done"]
    ELSE IF result.what = "mirror_lost_exc_t"
    THEN [sent |-> <<StringMsg(result.what)>>, escaped |-> FALSE,
          next |-> "done"]
    ELSE IF result.what = "insufficient_mirrors_exc_t"
    THEN [sent |-> <<StringMsg(result.what)>>, escaped |-> FALSE,
          next |-> "done"]
    ELSE [sent |-> <<>>, escaped |-> TRUE, next |-> "done"]

\* The handler of a request, with state q, after its dispatcher call ended
\* with `result`.
Finish(q, result) ==
    LET h == IF q.kind = "write" THEN on_write(result) ELSE on_read(result)
    IN [q EXCEPT !.pc = h.next, !.outcome = result,
                 !.replies = @ \o h.sent, !.escaped = h.escaped]

\* Faulty variant: a transport that delivers the newest message first.
EnqueueInFront(q, msgs) == msgs \o q

\* Messages to one mirror join its ordered delivery stream.
Enqueue(q, msgs) == q \o msgs

\* What the dispatch of write r sends to mirror m: the write to its write
\* mailbox and, where it published one, to its writeread mailbox.
WriteMessages(m, r) ==
    (IF mirror_data[m].write_mailbox
     THEN <<[type |-> "write", req |-> r]>> ELSE <<>>)
    \o (IF mirror_data[m].writeread_mailbox
        THEN <<[type |-> "writeread", req |-> r]>> ELSE <<>>)

\* Faulty variant: a dispatcher that gives up as soon as the response is there.
WriteCompleteOnResponse(q) == q.resp \cap q.cand # {}

\* mirror_dispatcher_t::write returns when a writeread-capable mirror has
\* delivered a response and every mirror has acknowledged, unless it was
\* observed lost (a lost mirror has left the set of registered mirrors).
WriteComplete(q) ==
    /\ q.resp \cap q.cand # {}
    /\ \A m \in Mirrors : m \in Registered => m \in q.acked

\* mirror_dispatcher_t::write fails when every writeread-capable mirror was
\* lost before it responded.
WriteMirrorLost(q) ==
    /\ q.cand \subseteq Lost
    /\ q.resp \cap q.cand = {}

\* Faulty variant: a dispatcher that stamps the write and keeps its own
\* timestamp as it was.
OnWriteCallNoAdvance(r) ==
    /\ Delivered(r, "write")
    /\ IF WritereadCapable = {}
       THEN /\ req' = [req EXCEPT
                  ![r] = Finish([req[r] EXCEPT !.kind = "write"],
                                Thrown("insufficient_mirrors_exc_t"))]
            /\ UNCHANGED <<timestamp, stream>>
       ELSE /\ timestamp' = timestamp
            /\ req' = [req EXCEPT ![r].pc = "await",
                                  ![r].kind = "write",
                                  ![r].timestamp = timestamp + 1,
                                  ![r].cand = WritereadCapable]
            /\ stream' = [m \in Mirrors |->
                  IF m \in Registered
                  THEN Enqueue(stream[m], WriteMessages(m, r))
                  ELSE stream[m]]
    /\ UNCHANGED <<mirror_status, mirror_data, applied>>
    /\ UNCHANGED nonDispVars

\* A write is delivered to the master's write mailbox; on_write runs and
\* calls mirror_dispatcher->write(): with no writeread-capable mirror the
\* call throws at once; otherwise the write gets the next timestamp and is
\* broadcast, and the handler waits.
OnWriteCall(r) ==
    /\ Delivered(r, "write")
    /\ IF WritereadCapable = {}
       THEN /\ req' = [req EXCEPT
                  ![r] = Finish([req[r] EXCEPT !.kind = "write"],
                                Thrown("insufficient_mirrors_exc_t"))]
            /\ UNCHANGED <<timestamp, stream>>
       ELSE /\ timestamp' = timestamp + 1
            /\ req' = [req EXCEPT ![r].pc = "await",
                                  ![r].kind = "write",
                                  ![r].timestamp = timestamp + 1,
                                  ![r].cand = WritereadCapable]
            /\ stream' = [m \in Mirrors |->
                  IF m \in Registered
                  THEN Enqueue(stream[m], WriteMessages(m, r))
                  ELSE stream[m]]
    /\ UNCHANGED <<mirror_status, mirror_data, applied>>
    /\ UNCHANGED nonDispVars

\* mirror_dispatcher->write() returns the response of a writeread-capable
\* mirror, and on_write sends it.
OnWriteReturn(r) ==
    /\ req[r].pc = "await"
    /\ req[r].kind = "write"
    /\ WriteComplete(req[r])
    /\ \E m \in req[r].resp \cap req[r].cand :
          req' = [req EXCEPT ![r] = Finish(req[r], Returned(m))]
    /\ UNCHANGED <<mirror_status, mirror_data, timestamp, stream, applied>>
    /\ UNCHANGED nonDispVars

\* mirror_dispatcher->write() throws mirror_lost_exc_t, and on_write
\* catches it.
OnWriteThrow(r) ==
    /\ req[r].pc = "await"
    /\ req[r].kind = "write"
    /\ WriteMirrorLost(req[r])
    /\ req' = [req EXCEPT ![r] = Finish(req[r], Thrown("mirror_lost_exc_t"))]
    /\ UNCHANGED <<mirror_status, mirror_data, timestamp, stream, applied>>
    /\ UNCHANGED nonDispVars

\* A read is delivered to the master's read mailbox; on_read runs and
\* calls mirror_dispatcher->read(): with no mirror that published a read
\* mailbox the call throws at once; otherwise the read goes to one such
\* mirror, and the handler waits.
OnReadCall(r) ==
    /\ Delivered(r, "read")
    /\ IF ReadCapable = {}
       THEN /\ req' = [req EXCEPT
                  ![r] = Finish([req[r] EXCEPT !.kind = "read"],
                                Thrown("insufficient_mirrors_exc_t"))]
            /\ UNCHANGED stream
       ELSE \E m \in ReadCapable :
            /\ req' = [req EXCEPT ![r].pc = "await",
                                  ![r].kind = "read",
                                  ![r].target = {m},
                                  ![r].sent = @ \cup {m}]
            /\ stream' = [stream EXCEPT
                  ![m] = Enqueue(@, <<[type |-> "read", req |-> r]>>)]
    /\ UNCHANGED <<mirror_status, mirror_data, timestamp, applied>>
    /\ UNCHANGED nonDispVars

\* The chosen mirror's reply arrived: mirror_dispatcher->read() returns it.
OnReadReturn(r) ==
    /\ req[r].pc = "await"
    /\ req[r].kind = "read"
    /\ \E m \in req[r].target \cap req[r].resp :
          req' = [req EXCEPT ![r] = Finish(req[r], Returned(m))]
    /\ UNCHANGED <<mirror_status, mirror_data, timestamp, stream, applied>>
    /\ UNCHANGED nonDispVars

\* The chosen mirror's liveness signal pulsed before its reply:
\* mirror_dispatcher->read() throws mirror_lost_exc_t.
OnReadThrow(r) ==
    /\ req[r].pc = "await"
    /\ req[r].kind = "read"
    /\ req[r].target \subseteq Lost
    /\ req[r].target \cap req[r].resp = {}
    /\ req' = [req EXCEPT ![r] = Finish(req[r], Thrown("mirror_lost_exc_t"))]
    /\ UNCHANGED <<mirror_status, mirror_data, timestamp, stream, applied>>
    /\ UNCHANGED nonDispVars

\* What the dispatcher records when mirror m has handled a message: the
\* acknowledgement of a write, or the response to a writeread or a read.
MirrorReply(q, m, msg) ==
    IF msg.type = "write"
    THEN [q EXCEPT !.acked = @ \cup {m}]
    ELSE [q EXCEPT !.resp = @ \cup {m}]

\* A live mirror takes the next message of its stream: it applies a write
\* to its store and acknowledges it, or answers a writeread or a read.
MirrorDeliver(m) ==
    /\ mirror_status[m] = "registered"
    /\ stream[m] # <<>>
    /\ LET msg == Head(stream[m]) IN
        /\ stream' = [stream EXCEPT ![m] = Tail(@)]
        /\ applied' = IF msg.type = "write"
                      THEN [applied EXCEPT ![m] = Append(@, msg.req)]
                      ELSE applied
        /\ req' = [req EXCEPT ![msg.req] = MirrorReply(@, m, msg)]
    /\ UNCHANGED <<mirror_status, mirror_data, timestamp>>
    /\ UNCHANGED nonDispVars

DispStep ==
    \/ \E m \in Mirrors, d \in MirrorData : Register(m, d)
    \/ \E m \in Mirrors : Lose(m)
    \/ \E r \in Requests : OnWriteCall(r)
    \/ \E r \in Requests : OnWriteReturn(r)
    \/ \E r \in Requests : OnWriteThrow(r)
    \/ \E r \in Requests : OnReadCall(r)
    \/ \E r \in Requests : OnReadReturn(r)
    \/ \E r \in Requests : OnReadThrow(r)
    \/ \E m \in Mirrors : MirrorDeliver(m)

(***************************************************************************)
(* Properties of the master and the dispatcher (specification Spec).       *)
(***************************************************************************)
Writes == {r \in Requests : req[r].kind = "write"}
Reads == {r \in Requests : req[r].kind = "read"}
Dispatched == {r \in Requests : req[r].pc \in {"await", "done"}}
Done == {r \in Requests : req[r].pc = "done"}

MirrorLostExc == Thrown("mirror_lost_exc_t")
InsufficientMirrorsExc == Thrown("insufficient_mirrors_exc_t")

Applies(m, r) == \E i \in DOMAIN applied[m] : applied[m][i] = r

\* C1 - every mirror applies writes in the order of the timestamps the
\* dispatcher gave them, so two mirrors that apply the same two writes apply
\* them in the same order.
C1_TimestampOrder ==
    /\ \A m \in Mirrors : \A i, j \in DOMAIN applied[m] :
          i < j => req[applied[m][i]].timestamp < req[applied[m][j]].timestamp
    /\ \A m, n \in Mirrors : \A i, j \in DOMAIN applied[m] :
          \A k, l \in DOMAIN applied[n] :
              (/\ i < j
               /\ applied[m][i] = applied[n][k]
               /\ applied[m][j] = applied[n][l]) => k < l

\* Two writes were in flight together and two mirrors have applied both.
C1_Witness ==
    \E m, n \in Mirrors : \E v, w \in Writes :
        /\ m # n /\ v # w
        /\ req[v].pc = "await" /\ req[w].pc = "await"
        /\ Applies(m, v) /\ Applies(m, w) /\ Applies(n, v) /\ Applies(n, w)

\* C5 - in the step in which a write returns a response: the response is
\* the one a writeread-capable mirror delivered; every mirror that has
\* registered, up to that moment, has acknowledged the write or has been
\* observed lost; the store of every live mirror
\* holds the write; and the master's reply is that one response.
C5_WriteReturn ==
    [][\A r \in Requests :
        (/\ req[r].pc = "await"
         /\ req'[r].pc = "done"
         /\ req'[r].kind = "write"
         /\ ~req'[r].outcome.thrown)
        => /\ req'[r].outcome.from \in req[r].resp \cap req[r].cand
           /\ \A m \in Mirrors :
                 mirror_status[m] # "absent"
                     => m \in req[r].acked \/ m \in Lost
           /\ \A m \in Registered : Applies(m, r)
           /\ req'[r].replies = <<ResponseMsg(req'[r].outcome.from)>>]_vars

\* A write has returned its one response with two writeread-capable
\* mirrors alive, both of which delivered a response.
C5_Witness ==
    \E r \in Writes \cap Done :
        /\ ~req[r].outcome.thrown
        /\ Len(req[r].replies) = 1
        /\ Cardinality(req[r].resp \cap Registered) = 2

\* C6 - a write dispatched while no registered mirror published a
\* writeread mailbox fails with insufficient_mirrors_exc_t, and the master
\* replies with the failure string and no write response.
C6_WriteInsufficientMirrors ==
    \A r \in Writes \cap Dispatched :
        req[r].cand = {} =>
            /\ req[r].pc = "done"
            /\ req[r].outcome = InsufficientMirrorsExc
            /\ req[r].replies = <<StringMsg("insufficient_mirrors_exc_t")>>

\* A write failed for want of a writeread-capable mirror although a
\* write-only mirror was registered.
C6_Witness ==
    \E r \in Writes \cap Done :
        /\ req[r].outcome = InsufficientMirrorsExc
        /\ Registered # {}
        /\ WritereadCapable = {}

\* C7 - a finished write failed with mirror_lost_exc_t exactly when every
\* writeread-capable mirror it was sent to was lost before any of them
\* responded; the master then replies with the failure string; and the
\* acknowledgement of every mirror that applied a write is observed,
\* whether or not the write failed.
C7_WriteMirrorLost ==
    /\ \A r \in Writes \cap Done :
          /\ req[r].outcome = MirrorLostExc
                <=> (/\ req[r].cand # {}
                     /\ req[r].cand \subseteq Lost
                     /\ req[r].resp \cap req[r].cand = {})
          /\ req[r].outcome = MirrorLostExc
                => req[r].replies = <<StringMsg("mirror_lost_exc_t")>>
    /\ \A r \in Writes : \A m \in Mirrors :
          Applies(m, r) => m \in req[r].acked

\* The only writeread-capable mirror was lost after it applied the write
\* and before it responded; the write failed, and the acknowledgement of
\* the surviving write-only mirror is there.
C7_Witness ==
    \E r \in Writes \cap Done :
        /\ req[r].outcome = MirrorLostExc
        /\ \E m \in req[r].cand : Applies(m, r)
        /\ \E m \in Registered : m \in req[r].acked /\ m \notin req[r].cand

\* C8 - in the step that dispatches a read: if no registered mirror
\* published a read mailbox, the read fails with insufficient_mirrors_exc_t,
\* is sent to no mirror, and the master replies with the failure string;
\* otherwise the read is sent to exactly one mirror, one that published a
\* read mailbox, and nothing is replied yet.
C8_ReadDispatch ==
    [][\A r \in Requests :
        (/\ req[r].pc \in {"idle", "recv"}
         /\ req'[r].pc \notin {"idle", "recv"}
         /\ req'[r].kind = "read")
        => /\ ReadCapable = {} =>
                 /\ req'[r].pc = "done"
                 /\ req'[r].outcome = InsufficientMirrorsExc
                 /\ req'[r].replies =
                        <<StringMsg("insufficient_mirrors_exc_t")>>
                 /\ req'[r].sent = {}
                 /\ stream' = stream
           /\ ReadCapable # {} =>
                 \E m \in ReadCapable :
                    /\ req'[r].sent = {m}
                    /\ req'[r].replies = <<>>
                    /\ stream' = [stream EXCEPT
                          ![m] = Append(@, [type |-> "read", req |-> r])]]_vars

\* A read failed with every registered mirror write-only.
C8_Witness ==
    \E r \in Reads \cap Done :
        /\ req[r].outcome = InsufficientMirrorsExc
        /\ Cardinality(Registered) = NumMirrors
        /\ ReadCapable = {}

\* C9 - a read whose chosen mirror was lost before its reply fails with
\* mirror_lost_exc_t, the master replies with the failure string, and the
\* read is never sent to a second mirror.
C9_ReadMirrorLostNoRetry ==
    \A r \in Reads :
        /\ Cardinality(req[r].sent) <= 1
        /\ (r \in Done /\ req[r].sent # {} /\ req[r].sent \cap req[r].resp = {})
              => req[r].outcome = MirrorLostExc
        /\ req[r].outcome = MirrorLostExc =>
              /\ req[r].pc = "done"
              /\ req[r].sent \subseteq Lost
              /\ req[r].sent \cap req[r].resp = {}
              /\ req[r].replies = <<StringMsg("mirror_lost_exc_t")>>
              /\ \A m \in Mirrors : \A i \in DOMAIN stream[m] :
                    stream[m][i].req # r

\* A read failed because its mirror was lost, while another mirror that
\* published a read mailbox is registered.
C9_Witness ==
    \E r \in Reads \cap Done :
        /\ req[r].outcome = MirrorLostExc
        /\ ReadCapable # {}

\* C10 - a handler that has finished sent exactly one message to the reply
\* address: the response when the dispatcher returned one, the failure
\* string of the exception when it threw; no exception left the handler;
\* and a handler that has not finished has sent nothing.
C10_ExactlyOneReply ==
    \A r \in Requests :
        /\ req[r].pc # "done" => req[r].replies = <<>>
        /\ req[r].pc = "done" =>
              /\ ~req[r].escaped
              /\ Len(req[r].replies) = 1
              /\ ~req[r].outcome.thrown
                    => req[r].replies[1] = ResponseMsg(req[r].outcome.from)
              /\ req[r].outcome.thrown
                    => /\ req[r].replies[1] = StringMsg(req[r].outcome.what)
                       /\ req[r].outcome.what \in
                             {"mirror_lost_exc_t", "insufficient_mirrors_exc_t"}

\* A write and a read have finished, one with a response and the other
\* with a failure.
C10_Witness ==
    \E r, q \in Done :
        /\ req[r].kind = "write" /\ req[q].kind = "read"
        /\ req[r].outcome.thrown # req[q].outcome.thrown

\* The writes that the dispatcher has given a timestamp.
Stamped(rq) == {r \in Requests : rq[r].kind = "write" /\ rq[r].cand # {}}

\* C22 - the dispatcher's timestamp never decreases; it changes only in the
\* step that dispatches a write, which moves it one up and gives the write
\* the new value; so the timestamps of the writes are distinct, they are
\* the values from the one after the initial store's timestamp up to the
\* current one, and every write that succeeds has moved it by one.
C22_TimestampMonotone ==
    /\ [](/\ {req[r].timestamp : r \in Stamped(req)}
              = (InitialTimestamp + 1)..timestamp
          /\ \A v, w \in Stamped(req) :
                v # w => req[v].timestamp # req[w].timestamp
          /\ \A r \in Writes \cap Done :
                ~req[r].outcome.thrown => r \in Stamped(req))
    /\ [][/\ timestamp' >= timestamp
          /\ \A r \in Stamped(req') \ Stamped(req) :
                /\ timestamp' = timestamp + 1
                /\ req'[r].timestamp = timestamp'
          /\ \A r \in Stamped(req) : req'[r].timestamp = req[r].timestamp
          /\ timestamp' # timestamp
             => Stamped(req') # Stamped(req)]_vars

\* Two writes were dispatched one after the other; the first succeeded,
\* the second failed when its mirrors were lost, and the timestamp has
\* moved twice.
C22_Witness ==
    /\ timestamp = InitialTimestamp + 2
    /\ \E v, w \in Writes \cap Done :
          /\ ~req[v].outcome.thrown
          /\ req[w].outcome = MirrorLostExc
          /\ req[v].timestamp = InitialTimestamp + 1
          /\ req[w].timestamp = InitialTimestamp + 2

(***************************************************************************)
(*                       FIFO TOKEN ENFORCER                               *)
(***************************************************************************)

\* A token is a ticket of the source: a read token records the count of
\* writes issued before it; a write token records that count and the number
\* of reads issued since the previous write.
ReadToken(st) ==
    [kind |-> "read", timestamp |-> st.timestamp, num_preceding_reads |-> 0]

WriteToken(st) ==
    [kind |-> "write", timestamp |-> st.timestamp,
     num_preceding_reads |-> st.num_reads]

TokenIds == 1..Len(tokens)

Active == {i \in TokenIds : tstate[i] = "active"}

NotPerformed == [done |-> FALSE, saw |-> <<>>]

InitFifo ==
    /\ source_state = [timestamp |-> 0, num_reads |-> 0]
    /\ sink_state = [timestamp |-> 0, num_reads |-> 0]
    /\ tokens = <<>>
    /\ tstate = <<>>
    /\ store = <<>>
    /\ effect = <<>>
    /\ arrivals = <<>>

\* The source hands out a read token.
EnterRead ==
    /\ Len(tokens) < MaxTokens
    /\ tokens' = Append(tokens, ReadToken(source_state))
    /\ source_state' = [source_state EXCEPT !.num_reads = @ + 1]
    /\ tstate' = Append(tstate, "issued")
    /\ effect' = Append(effect, NotPerformed)
    /\ UNCHANGED <<sink_state, store, arrivals>>
    /\ UNCHANGED nonFifoVars

\* The source hands out a write token.
EnterWrite ==
    /\ Len(tokens) < MaxTokens
    /\ tokens' = Append(tokens, WriteToken(source_state))
    /\ source_state' = [timestamp |-> source_state.timestamp + 1,
                        num_reads |-> 0]
    /\ tstate' = Append(tstate, "issued")
    /\ effect' = Append(effect, NotPerformed)
    /\ UNCHANGED <<sink_state, store, arrivals>>
    /\ UNCHANGED nonFifoVars

\* Faulty variant: a read token that does not wait for the writes issued before it.
ReadMayGoEarly(tok, st) == tok.timestamp >= st.timestamp

\* A read token may become active once every write issued before it has
\* been released.
ReadMayGo(tok, st) == tok.timestamp = st.timestamp

\* Faulty variant: a write token that does not wait for the reads issued before it.
WriteMayGoOverReads(tok, st) == tok.timestamp = st.timestamp

\* A write token may become active once every token issued before it has
\* been released: the sink is empty.
WriteMayGo(tok, st) ==
    /\ tok.timestamp = st.timestamp
    /\ tok.num_preceding_reads = st.num_reads

\* Faulty variant: a sink that enforces nothing.
MayGoAlways(tok, st) == TRUE

MayGo(tok, st) ==
    IF tok.kind = "read" THEN ReadMayGo(tok, st) ELSE WriteMayGo(tok, st)

\* The sink's pump: every token that has arrived and may go becomes active.
Pump(ts, st) ==
    [i \in DOMAIN ts |->
        IF ts[i] = "waiting" /\ MayGo(tokens[i], st) THEN "active" ELSE ts[i]]

\* The holder of token i arrives at the sink, in any order.
Arrive(i) ==
    /\ tstate[i] = "issued"
    /\ tstate' = Pump([tstate EXCEPT ![i] = "waiting"], sink_state)
    /\ arrivals' = Append(arrivals, i)
    /\ UNCHANGED <<source_state, sink_state, tokens, store, effect>>
    /\ UNCHANGED nonFifoVars

\* The operation of an active token is performed on the store.
Perform(i) ==
    /\ tstate[i] = "active"
    /\ ~effect[i].done
    /\ effect' = [effect EXCEPT ![i] = [done |-> TRUE, saw |-> store]]
    /\ store' = IF tokens[i].kind = "write" THEN Append(store, i) ELSE store
    /\ UNCHANGED <<source_state, sink_state, tokens, tstate, arrivals>>
    /\ UNCHANGED nonFifoVars

\* The sink's state after the token is released.
SinkAfter(tok, st) ==
    IF tok.kind = "read"
    THEN [st EXCEPT !.num_reads = @ + 1]
    ELSE [timestamp |-> st.timestamp + 1, num_reads |-> 0]

\* The token is released on the exit path, and the sink is pumped.
Release(i) ==
    /\ tstate[i] = "active"
    /\ effect[i].done
    /\ sink_state' = SinkAfter(tokens[i], sink_state)
    /\ tstate' = Pump([tstate EXCEPT ![i] = "released"], sink_state')
    /\ UNCHANGED <<source_state, tokens, store, effect, arrivals>>
    /\ UNCHANGED nonFifoVars

FifoStep ==
    \/ EnterRead
    \/ EnterWrite
    \/ \E i \in TokenIds : Arrive(i)
    \/ \E i \in TokenIds : Perform(i)
    \/ \E i \in TokenIds : Release(i)

(***************************************************************************)
(* Properties of the FIFO token enforcer (specification SpecFifo).         *)
(***************************************************************************)
Activated(i) == tstate[i] \in {"active", "released"}

ArrivedBefore(i, j) ==
    \E p, q \in DOMAIN arrivals : p < q /\ arrivals[p] = i /\ arrivals[q] = j

WriteBetween(a, b) == \E k \in a..b : tokens[k].kind = "write"

\* The elements of a finite set of numbers in increasing order.
SortedSeq(S) ==
    CHOOSE s \in [1..Cardinality(S) -> S] :
        \A p, q \in 1..Cardinality(S) : p < q => s[p] < s[q]

\* The write tokens issued before token i, in issue order.
WritesBefore(i) == SortedSeq({j \in 1..(i - 1) : tokens[j].kind = "write"})

\* C2 - origin order: an operation is performed on a store that holds
\* exactly the writes issued before it, applied in issue order (so a read
\* issued after a write observes that write, and writes commit in issue
\* order); and of two operations of which one is a write, the later issued
\* is never performed before the earlier issued.  The order of two reads
\* with no write between them is no effect at the store.
C2_OriginOrder ==
    /\ \A i \in TokenIds : effect[i].done => effect[i].saw = WritesBefore(i)
    /\ \A a, b \in TokenIds :
          (a < b /\ WriteBetween(a, b) /\ effect[b].done) => effect[a].done

\* A read issued after a write reached the sink before the write did, and
\* has been performed having observed the write.
C2_Witness ==
    \E w, r \in TokenIds :
        /\ w < r /\ tokens[w].kind = "write" /\ tokens[r].kind = "read"
        /\ ArrivedBefore(r, w)
        /\ effect[r].done /\ effect[r].saw # <<>>

\* C3 - write exclusivity: the active tokens of the sink are one write token
\* and nothing else, or read tokens only; hence a write token is active only
\* in a sink that is otherwise empty, from the step that activates it.
C3_WriteExclusivity ==
    \A i \in Active : tokens[i].kind = "write" => Active = {i}

\* Two read tokens overlap at the sink while a write token that has
\* arrived is held back.
C3_Witness ==
    \E i, j \in Active :
        /\ i # j
        /\ \E w \in TokenIds : tokens[w].kind = "write" /\ tstate[w] = "waiting"

Registrants == 1..NumRegistrants

\* generate_uuid(): every registrant mints an id of its own.
generate_uuid(i) == [uuid |-> i]

\* death_runner_t::fun before the constructor body has set it.
NoFun == [armed |-> FALSE, addr |-> "", rid |-> [uuid |-> 0]]

ResourceLostExc == Thrown("resource_lost_exc_t")

\* The registrar's two mailboxes, and the messages sent to them.
CreateMsg(rid) == [to |-> "create_mailbox", rid |-> rid]
DeleteMsg(addr, rid) == [to |-> addr, rid |-> rid]

\* registrant_t::send_deregister_message: one send to the delete mailbox.
send_deregister_message(addr, rid) == <<DeleteMsg(addr, rid)>>

\* ~death_runner_t: runs fun if it has been set.
death_runner_dtor(fun) ==
    IF fun.armed THEN send_deregister_message(fun.addr, fun.rid) ELSE <<>>

\* Faulty variant: a destructor that also deregisters by itself.
registrant_dtor_sends_delete(i, fun) ==
    send_deregister_message("delete_mailbox", generate_uuid(i))
        \o death_runner_dtor(fun)

\* ~registrant_t: the body is empty; the members are destroyed, the
\* deregisterer among them.  Also what unwinding a failed constructor does.
registrant_dtor(i, fun) == death_runner_dtor(fun)

\* resource_access_t: its constructor and access() throw once the
\* resource's failed signal is pulsed.
access(failed) == IF failed THEN ResourceLostExc ELSE NoResult

\* The member initialisers of registrant_t::registrant_t: the registrar's
\* resource_access_t is constructed, which throws if the registrar is dead.
ctor_members(i, failed) ==
    IF access(failed).thrown
    THEN [next |-> "thrown", exc |-> access(failed), fun |-> NoFun,
          msgs |-> <<>>]
    ELSE [next |-> "body", exc |-> NoResult, fun |-> NoFun, msgs |-> <<>>]

\* Faulty variant: a constructor that leaves the deregisterer unset.
ctor_arm_nothing(i, failed) ==
    IF access(failed).thrown
    THEN [next |-> "thrown", exc |-> access(failed), fun |-> NoFun,
          msgs |-> <<>>]
    ELSE [next |-> "armed", exc |-> NoResult, fun |-> NoFun, msgs |-> <<>>]

\* The first statement of the constructor body: deregisterer.fun is bound
\* to the delete mailbox (registrar.access() may throw) and the id.
ctor_arm(i, failed) ==
    IF access(failed).thrown
    THEN [next |-> "thrown", exc |-> access(failed), fun |-> NoFun,
          msgs |-> <<>>]
    ELSE [next |-> "armed", exc |-> NoResult,
          fun |-> [armed |-> TRUE, addr |-> "delete_mailbox",
                   rid |-> generate_uuid(i)],
          msgs |-> <<>>]

\* Faulty variant: a constructor that sends the create message again.
ctor_send_twice(i, fun, failed) ==
    IF access(failed).thrown
    THEN [next |-> "thrown", exc |-> access(failed), fun |-> fun,
          msgs |-> <<>>]
    ELSE [next |-> "sent", exc |-> NoResult, fun |-> fun,
          msgs |-> <<CreateMsg(generate_uuid(i)),
                     CreateMsg(generate_uuid(i))>>]

\* Faulty variant: a constructor that sends the create message without
\* looking at the registrar's state.
ctor_send_unchecked(i, fun, failed) ==
    [next |-> "sent", exc |-> NoResult, fun |-> fun,
     msgs |-> <<CreateMsg(generate_uuid(i))>>]

\* The second statement of the constructor body: the create message is
\* sent (registrar.access() may throw before the send).
ctor_send(i, fun, failed) ==
    IF access(failed).thrown
    THEN [next |-> "thrown", exc |-> access(failed), fun |-> fun,
          msgs |-> <<>>]
    ELSE [next |-> "sent", exc |-> NoResult, fun |-> fun,
          msgs |-> <<CreateMsg(generate_uuid(i))>>]

InitReg ==
    /\ reg_pc = [i \in Registrants |-> "unborn"]
    /\ deregisterer = [i \in Registrants |-> NoFun]
    /\ reg_exc = [i \in Registrants |-> NoResult]
    /\ registrar_failed = FALSE
    /\ lost_at = [i \in Registrants |-> "never"]
    /\ wire = <<>>

\* One step of a constructor ends in state st; a step that throws unwinds
\* the members constructed so far, the deregisterer among them.
CtorStep(i, st) ==
    /\ reg_pc' = [reg_pc EXCEPT ![i] = st.next]
    /\ reg_exc' = [reg_exc EXCEPT ![i] = st.exc]
    /\ deregisterer' = [deregisterer EXCEPT ![i] = st.fun]
    /\ wire' = wire \o st.msgs \o
                 (IF st.exc.thrown THEN registrant_dtor(i, st.fun) ELSE <<>>)
    /\ UNCHANGED <<registrar_failed, lost_at>>
    /\ UNCHANGED nonRegVars

CtorMembers(i) ==
    /\ reg_pc[i] = "unborn"
    /\ CtorStep(i, ctor_members(i, registrar_failed))

CtorArm(i) ==
    /\ reg_pc[i] = "body"
    /\ CtorStep(i, ctor_arm(i, registrar_failed))

CtorSend(i) ==
    /\ reg_pc[i] = "armed"
    /\ CtorStep(i, ctor_send(i, deregisterer[i], registrar_failed))

\* The constructor returns to its caller.
CtorReturn(i) ==
    /\ reg_pc[i] = "sent"
    /\ reg_pc' = [reg_pc EXCEPT ![i] = "alive"]
    /\ UNCHANGED <<deregisterer, reg_exc, registrar_failed, lost_at, wire>>
    /\ UNCHANGED nonRegVars

\* The registrant is destroyed.
Destroy(i) ==
    /\ reg_pc[i] = "alive"
    /\ reg_pc' = [reg_pc EXCEPT ![i] = "destroyed"]
    /\ wire' = wire \o registrant_dtor(i, deregisterer[i])
    /\ UNCHANGED <<deregisterer, reg_exc, registrar_failed, lost_at>>
    /\ UNCHANGED nonRegVars

\* The registrar is torn down or its peer disconnects: the resource's
\* failed signal pulses, at any moment of any registrant's life.
RegistrarFail ==
    /\ ~registrar_failed
    /\ registrar_failed' = TRUE
    /\ lost_at' = reg_pc
    /\ UNCHANGED <<reg_pc, deregisterer, reg_exc, wire>>
    /\ UNCHANGED nonRegVars

RegStep ==
    \/ \E i \in Registrants : CtorMembers(i)
    \/ \E i \in Registrants : CtorArm(i)
    \/ \E i \in Registrants : CtorSend(i)
    \/ \E i \in Registrants : CtorReturn(i)
    \/ \E i \in Registrants : Destroy(i)
    \/ RegistrarFail

(***************************************************************************)
(* Properties of the registrant (specification SpecReg).                   *)
(***************************************************************************)
\* The number of messages of the wire that satisfy a test.
RECURSIVE CountMsgs(_, _, _)
CountMsgs(w, to, rid) ==
    IF w = <<>> THEN 0
    ELSE (IF Head(w).to = to /\ Head(w).rid = rid THEN 1 ELSE 0)
         + CountMsgs(Tail(w), to, rid)

Creates(i) == CountMsgs(wire, "create_mailbox", generate_uuid(i))
Deletes(i) == CountMsgs(wire, "delete_mailbox", generate_uuid(i))

\* C11 - a registrant never sends more than one delete for its id; once it
\* is destroyed, or once its construction is unwound after the create
\* message was sent, exactly one delete for its id has been sent.
C11_DeleteExactlyOnce ==
    \A i \in Registrants :
        /\ Deletes(i) <= 1
        /\ reg_pc[i] = "destroyed" => Deletes(i) = 1
        /\ (reg_pc[i] = "thrown" /\ Creates(i) > 0) => Deletes(i) = 1

\* A registrant was constructed, registered and destroyed.
C11_Witness ==
    \E i \in Registrants :
        reg_pc[i] = "destroyed" /\ Creates(i) = 1 /\ Deletes(i) = 1

\* The constructor of registrant i has ended, by a return or by a throw.
CtorEnded(i) == reg_pc[i] \in {"alive", "destroyed", "thrown"}

\* C12 as stated - when the registrar's resource is lost between the
\* create send and the constructor's return, construction surfaces
\* resource_lost_exc_t and a delete for the id of the create is sent.
C12_LostAfterCreateSend ==
    \A i \in Registrants :
        (lost_at[i] = "sent" /\ CtorEnded(i))
        => /\ reg_exc[i] = ResourceLostExc
           /\ Creates(i) = 1
           /\ Deletes(i) = 1

\* C12 (amended) - when the registrar's resource is lost after the
\* deregisterer is armed and before the create send, construction
\* surfaces resource_lost_exc_t, no create is sent, and unwinding sends one
\* delete for the registration id; when it is lost after the create send,
\* the constructor returns normally, and the delete matching the create is
\* sent when the registrant is destroyed, not before.
C12_LostBeforeCreateSend ==
    \A i \in Registrants :
        /\ (lost_at[i] = "armed" /\ reg_pc[i] # "armed")
           => /\ reg_pc[i] = "thrown"
              /\ reg_exc[i] = ResourceLostExc
              /\ Creates(i) = 0
              /\ Deletes(i) = 1
        /\ (lost_at[i] = "sent" /\ CtorEnded(i))
           => /\ reg_pc[i] # "thrown"
              /\ reg_exc[i] = NoResult
              /\ Creates(i) = 1
              /\ Deletes(i) = (IF reg_pc[i] = "destroyed" THEN 1 ELSE 0)

\* A construction was unwound between the arming and the create send, and
\* another returned although the registrar was lost after its create send.
C12_Witness ==
    /\ \E i \in Registrants :
          lost_at[i] = "armed" /\ reg_pc[i] = "thrown" /\ Deletes(i) = 1
    /\ \E i \in Registrants :
          lost_at[i] = "sent" /\ reg_pc[i] = "destroyed" /\ Deletes(i) = 1

\* C13 - a constructor step that accesses the registrar while its failed
\* signal is pulsed ends the construction with resource_lost_exc_t and
\* sends no create; no other step throws, and nothing else is thrown; a
\* registrar already dead when the construction starts gets no create
\* message; and the constructor never waits: until it has ended, its next
\* step is always possible.
C13_ResourceLost ==
    /\ [][\A i \in Registrants :
            (reg_pc[i] \in {"unborn", "body", "armed"}
                /\ reg_pc'[i] # reg_pc[i])
            => IF registrar_failed
               THEN /\ reg_pc'[i] = "thrown"
                    /\ reg_exc'[i] = ResourceLostExc
                    /\ Creates(i)' = Creates(i)
               ELSE /\ reg_pc'[i] # "thrown"
                    /\ reg_exc'[i] = NoResult]_vars
    /\ [](\A i \in Registrants :
            /\ (lost_at[i] = "unborn" /\ reg_pc[i] # "unborn")
               => reg_pc[i] = "thrown" /\ Creates(i) = 0
            /\ reg_pc[i] = "thrown" <=> reg_exc[i] = ResourceLostExc
            /\ reg_pc[i] # "thrown" => reg_exc[i] = NoResult
            /\ reg_pc[i] = "body" => ENABLED CtorArm(i)
            /\ reg_pc[i] = "armed" => ENABLED CtorSend(i)
            /\ reg_pc[i] = "sent" => ENABLED CtorReturn(i))

\* One construction failed against a registrar that was already dead, and
\* another, started before the registrar died, returned.
C13_Witness ==
    /\ \E i \in Registrants :
          lost_at[i] = "unborn" /\ reg_pc[i] = "thrown" /\ Creates(i) = 0
    /\ \E i \in Registrants :
          lost_at[i] \in {"sent", "alive"} /\ reg_pc[i] = "alive"

\* The create message of registrant i is on the wire before position k.
CreatedBefore(i, k) ==
    \E j \in 1..(k - 1) : wire[j] = CreateMsg(generate_uuid(i))

\* The delete messages for the id of registrant i are at these positions.
DeletesAt(i) ==
    {k \in DOMAIN wire :
        wire[k] = DeleteMsg("delete_mailbox", generate_uuid(i))}

\* C26 as stated - every delete message for an id comes after the create
\* message for that id, and the create message is sent at most once.
C26_DeleteAfterCreate ==
    \A i \in Registrants :
        /\ Creates(i) <= 1
        /\ \A k \in DeletesAt(i) : CreatedBefore(i, k)

\* C26 (amended) - the create message for an id is sent at most once, and
\* every delete message for the id comes after it, except in one case:
\* when the registrar is lost after the deregisterer is armed and before
\* the create send, the constructor throws at the send and unwinding sends
\* the delete for an id whose create was never sent.
C26_DeleteAfterCreateUnlessLost ==
    \A i \in Registrants :
        /\ Creates(i) <= 1
        /\ IF lost_at[i] = "armed" /\ reg_pc[i] = "thrown"
           THEN Creates(i) = 0 /\ Deletes(i) = 1
           ELSE \A k \in DeletesAt(i) : CreatedBefore(i, k)

\* One registrant sent its create and, destroyed, its delete; the
\* constructor of another was unwound at the create send, and its delete
\* is on the wire with no create.
C26_Witness ==
    /\ \E i \in Registrants :
          /\ reg_pc[i] = "destroyed"
          /\ DeletesAt(i) # {}
          /\ \A k \in DeletesAt(i) : CreatedBefore(i, k)
    /\ \E i \in Registrants :
          /\ reg_exc[i] = ResourceLostExc
          /\ DeletesAt(i) # {}
          /\ Creates(i) = 0

(***************************************************************************)
(*                             REGION MAP                                  *)
(***************************************************************************)
\* The keyspace, and the regions of the protocol: the subsets of the keys.
Keys == 1..NumKeys
Regions == SUBSET Keys
MapValues == {"v0", "v1"}

\* The region algebra of the protocol.
region_empty == {}
region_is_superset(outer, inner) == inner \subseteq outer
region_intersection(r1, r2) == r1 \cap r2

\* region_join: the union of regions that do not overlap; bad_join_exc_t
\* otherwise.
region_join(rs) ==
    IF \A i, j \in DOMAIN rs : i # j => rs[i] \cap rs[j] = {}
    THEN [thrown |-> FALSE, region |-> UNION {rs[i] : i \in DOMAIN rs}]
    ELSE [thrown |-> TRUE, region |-> {}]

\* The maximal runs of adjacent keys of a set, in key order.
RECURSIVE Runs(_)
Runs(S) ==
    IF S = {} THEN <<>>
    ELSE LET lo == CHOOSE k \in S : \A l \in S : k <= l
             hi == CHOOSE k \in S :
                     /\ lo..k \subseteq S
                     /\ \A l \in S : lo..l \subseteq S => l <= k
         IN <<lo..hi>> \o Runs(S \ (lo..hi))

\* region_subtract_many: what is left of r without the regions rs, as
\* regions of adjacent keys.
region_subtract_many(r, rs) == Runs(r \ UNION {rs[i] : i \in DOMAIN rs})

region_is_empty(r) == region_is_superset(region_empty, r)

region_overlaps(r1, r2) == ~region_is_empty(region_intersection(r1, r2))

\* std::pair<region_t, value_t>
internal_pair_t(r, v) == [first |-> r, second |-> v]

\* region_map_t(r, v)
region_map_t_single(r, v) == <<internal_pair_t(r, v)>>

\* region_map_t(begin, end)
region_map_t_range(pairs) == pairs

get_domain(m) == region_join([i \in DOMAIN m |-> m[i].first])

\* Faulty variant: a mask that keeps the region of each pair it intersects.
mask_whole_pairs(m, region) ==
    SelectSeq(m, LAMBDA p : region_overlaps(p.first, region))

mask(m, region) ==
    LET ixn == [i \in DOMAIN m |->
                  internal_pair_t(region_intersection(m[i].first, region),
                                  m[i].second)]
    IN region_map_t_range(
           SelectSeq(ixn, LAMBDA p : ~region_is_empty(p.first)))

\* The pairs that update keeps of the first k pairs of m: the parts of the
\* old regions outside the overlay, with the old values.
RECURSIVE updated_pairs(_, _, _)
updated_pairs(m, overlay_regions, k) ==
    IF k = 0 THEN <<>>
    ELSE LET old == m[k].first
             old_subregions == region_subtract_many(old, overlay_regions)
         IN updated_pairs(m, overlay_regions, k - 1) \o
            [j \in DOMAIN old_subregions |->
                internal_pair_t(old_subregions[j], m[k].second)]

\* Faulty variant: an update that keeps the old pairs whole.
update_no_subtract(m, new_values) == m \o new_values

\* Faulty variant: an update that forgets to append the new pairs.
update_forget_new(m, new_values) ==
    LET overlay_regions == [i \in DOMAIN new_values |-> new_values[i].first]
    IN updated_pairs(m, overlay_regions, Len(m))

\* Faulty variant: an update that drops the old pairs it overlaps.
update_drop_overlapped(m, new_values) ==
    SelectSeq(m, LAMBDA p :
        \A i \in DOMAIN new_values :
            ~region_overlaps(p.first, new_values[i].first))
    \o new_values

update(m, new_values) ==
    LET overlay_regions == [i \in DOMAIN new_values |-> new_values[i].first]
    IN updated_pairs(m, overlay_regions, Len(m)) \o new_values

set(m, r, v) == update(m, region_map_t_single(r, v))

\* Faulty variant: an equality that compares the pairs one by one.
region_map_eq_pairwise(left, right) == left = right

\* operator==(region_map_t, region_map_t)
region_map_eq(left, right) ==
    IF get_domain(left) # get_domain(right) THEN FALSE
    ELSE \A i \in DOMAIN left :
            LET r == mask(right, left[i].first)
            IN \A j \in DOMAIN r : r[j].second = left[i].second

\* region_map_t()
region_map_t_default == <<>>

\* The maps a caller builds: from one pair (of any region, the empty one
\* too), or from two pairs of regions that do not overlap, in either order.
Pairs == [first : Regions, second : MapValues]

InputMaps ==
    {region_map_t_single(p.first, p.second) : p \in Pairs}
    \cup {region_map_t_range(<<pq[1], pq[2]>>) : pq \in
             {pq \in Pairs \X Pairs :
                 /\ ~region_is_empty(pq[1].first)
                 /\ ~region_is_empty(pq[2].first)
                 /\ ~region_overlaps(pq[1].first, pq[2].first)}}

InitMap ==
    /\ rmap = region_map_t_default
    /\ rm_op = "none"

\* A map is constructed.
MapNew(m) ==
    /\ rm_op = "none"
    /\ rmap' = m
    /\ rm_op' = "new"
    /\ UNCHANGED nonMapVars

\* The map has been constructed, and not yet been compared.
MapInUse == rm_op \in {"new", "mask", "update"}

\* m = m.mask(region)
MapMask(region) ==
    /\ MapInUse
    /\ rmap' = mask(rmap, region)
    /\ rm_op' = "mask"
    /\ UNCHANGED nonMapVars

\* The assertion of update: it may be called with new_values on m.
UpdateAllowed(m, new_values) ==
    region_is_superset(get_domain(m).region, get_domain(new_values).region)

\* m.update(new_values), called as its assertion and its comment require.
MapUpdate(new_values) ==
    /\ MapInUse
    /\ UpdateAllowed(rmap, new_values)
    /\ rmap' = update(rmap, new_values)
    /\ rm_op' = "update"
    /\ UNCHANGED nonMapVars

\* m.set(r, v), which is an update with one pair.
MapSet(r, v) ==
    /\ MapInUse
    /\ UpdateAllowed(rmap, region_map_t_single(r, v))
    /\ rmap' = set(rmap, r, v)
    /\ rm_op' = "update"
    /\ UNCHANGED nonMapVars

\* m == other, for some map other that makes the comparison end with res.
\* The comparison leaves the map alone, and ends the run.
MapCompare ==
    /\ MapInUse
    /\ \E res \in {region_map_eq(rmap, other) : other \in InputMaps} :
          rm_op' = IF res THEN "equal" ELSE "unequal"
    /\ UNCHANGED rmap
    /\ UNCHANGED nonMapVars

MapStep ==
    \/ \E m \in InputMaps : MapNew(m)
    \/ \E region \in Regions : MapMask(region)
    \/ \E new_values \in InputMaps : MapUpdate(new_values)
    \/ \E r \in Regions, v \in MapValues : MapSet(r, v)

(***************************************************************************)
(* Properties of the region map (specification SpecMap).                   *)
(***************************************************************************)
\* C14 - every two distinct entries of the map have an empty intersection.
C14_Disjointness ==
    \A i, j \in DOMAIN rmap :
        i # j => rmap[i].first \cap rmap[j].first = {}

\* An update split an old pair around the new one: three entries.
C14_Witness ==
    /\ rm_op = "update"
    /\ Len(rmap) >= 3
    /\ \A i \in DOMAIN rmap : rmap[i].first # {}

\* The values a map gives to a key (one value, if the key is in the domain
\* of a map with disjoint entries).
ValuesAt(m, k) == {m[i].second : i \in {j \in DOMAIN m : k \in m[j].first}}

\* C15 - every step that updates the map m with a map whose domain is
\* inside the domain of m leaves the domain of m as it was.
C15_DomainPreservation ==
    [][rm_op' = "update" => get_domain(rmap') = get_domain(rmap)]_vars

\* An update of part of the domain has split the map into three entries or
\* more.
C15_Witness ==
    /\ rm_op = "update"
    /\ Len(rmap) >= 3
    /\ get_domain(rmap).region = Keys

\* C16 - for every map n whose domain is inside the domain of the map m,
\* after m.update(n) the map m.mask(n.domain()) equals n, and every key of
\* m's domain outside n's domain has the value it had before.
C16_UpdateOverride ==
    LET before == get_domain(rmap).region
    IN \A n \in InputMaps :
          LET d == get_domain(n).region
              u == update(rmap, n)
          IN region_is_superset(before, d)
             => /\ region_map_eq(mask(u, d), n)
                /\ \A k \in before \ d :
                      ValuesAt(u, k) = ValuesAt(rmap, k)

\* An update with two pairs of different values has left old slices with a
\* third value in place.
C16_Witness ==
    /\ rm_op = "update"
    /\ Len(rmap) >= 3
    /\ rmap[Len(rmap)].second # rmap[Len(rmap) - 1].second
    /\ rmap[Len(rmap)].first # {}
    /\ rmap[Len(rmap) - 1].first # {}
    /\ rmap[1].first # {}

\* C17 - for every map m and regions a and b, m.mask(a).mask(b) equals
\* m.mask(intersection(a, b)), and the domain of m.mask(a) is the
\* intersection of a with m's domain.
C17_MaskComposition ==
    LET domain == get_domain(rmap).region
    IN \A a \in Regions :
          LET masked == mask(rmap, a)
          IN /\ get_domain(masked) =
                   [thrown |-> FALSE,
                    region |-> region_intersection(a, domain)]
             /\ \A b \in Regions :
                   region_map_eq(mask(masked, b),
                                 mask(rmap, region_intersection(a, b)))

\* A mask has cut a map down to two entries and a smaller domain.
C17_Witness ==
    /\ rm_op = "mask"
    /\ Len(rmap) = 2
    /\ get_domain(rmap).region # Keys

\* The keys of a map, and whether two maps are the same function of the
\* keys.
KeysOf(m) == UNION {m[i].first : i \in DOMAIN m}

SameFunction(a, b) ==
    /\ KeysOf(a) = KeysOf(b)
    /\ \A k \in KeysOf(a) : ValuesAt(a, k) = ValuesAt(b, k)

\* C18 - a map m and any other map compare equal exactly when they are the
\* same function of the keys, whatever the split and the order of their
\* pairs, and m == other exactly when other == m.  (A comparison leaves m
\* as it was, so the maps to look at are those not yet compared.)
C18_Equality ==
    MapInUse =>
        \A other \in InputMaps :
            LET equal == region_map_eq(rmap, other)
            IN /\ equal = SameFunction(rmap, other)
               /\ region_map_eq(other, rmap) = equal

\* A map of three entries compared equal to a map built otherwise, and
\* there are maps of its domain that it is unequal to.
C18_Witness ==
    /\ rm_op = "equal"
    /\ Len(rmap) >= 3
    /\ \E other \in InputMaps :
          Len(other) < Len(rmap) /\ region_map_eq(rmap, other)
    /\ \E other \in InputMaps :
          KeysOf(other) = KeysOf(rmap) /\ ~region_map_eq(rmap, other)

(***************************************************************************)
(*                       STORE VIEW AND SUBVIEWS                           *)
(***************************************************************************)
\* The views: the store itself, whose region is the keyspace, and a
\* store_subview_t of it for every region but the empty one.
RootView == [kind |-> "store", region |-> Keys]
SubView(r) == [kind |-> "subview", region |-> r]
Views == {RootView} \cup {SubView(r) : r \in Regions \ {region_empty}}

\* store_view_t::get_region
get_region(view) == view.region

\* The store's own operations.  Its metainfo starts as one pair over its
\* region, and each mutation installs the new metainfo over its domain.
store_initial_metainfo == region_map_t_single(Keys, "v0")
store_get_metainfo(mi) == mi
store_set_metainfo(mi, new_metainfo) == update(mi, new_metainfo)
store_write(mi, new_metainfo) == update(mi, new_metainfo)
store_reset_data(mi, new_metainfo) == update(mi, new_metainfo)

\* Faulty variant: a subview that hands out the parent's metainfo as it is.
subview_get_metainfo_unmasked(mi, region) == store_get_metainfo(mi)

\* store_subview_t::get_metainfo
subview_get_metainfo(mi, region) == mask(store_get_metainfo(mi), region)

\* Faulty variant: a subview that does not pass set_metainfo on.
subview_set_metainfo_dropped(mi, region, new_metainfo) == mi

\* store_subview_t::set_metainfo, its assertion holding.
subview_set_metainfo(mi, region, new_metainfo) ==
    store_set_metainfo(mi, new_metainfo)

\* store_subview_t::write, its assertions holding.
subview_write(mi, region, new_metainfo) == store_write(mi, new_metainfo)

\* store_subview_t::reset_data, its assertions holding.
subview_reset_data(mi, region, new_metainfo) ==
    store_reset_data(mi, new_metainfo)

\* view->get_metainfo()
get_metainfo(view) ==
    IF view.kind = "store" THEN store_get_metainfo(metainfo)
    ELSE subview_get_metainfo(metainfo, get_region(view))

\* The last operation: for set_metainfo, with the view it went through and
\* its argument; for the others, with the kind of the view.
NoStoreOp == [op |-> "none", view |-> RootView, new |-> region_map_t_default]

StoreOp(op, view) ==
    [op |-> op, view |-> [kind |-> view.kind, region |-> Keys],
     new |-> region_map_t_default]

\* The metainfo a caller passes: one pair, of any region but the empty one.
MetainfoInputs ==
    {region_map_t_single(p.first, p.second) :
        p \in {q \in Pairs : ~region_is_empty(q.first)}}

InitStore ==
    /\ metainfo = store_initial_metainfo
    /\ sv_op = NoStoreOp

\* view->set_metainfo(new_metainfo), called as its precondition requires.
SetMetainfo(view, new_metainfo) ==
    /\ region_is_superset(get_region(view), get_domain(new_metainfo).region)
    /\ metainfo' =
          IF view.kind = "store"
          THEN store_set_metainfo(metainfo, new_metainfo)
          ELSE subview_set_metainfo(metainfo, get_region(view), new_metainfo)
    /\ sv_op' = [op |-> "set_metainfo", view |-> view, new |-> new_metainfo]
    /\ UNCHANGED nonStoreVars

\* view->write(expected_metainfo, new_metainfo, write, ...), called as its
\* preconditions require: expected_metainfo is the view's metainfo over the
\* domain of new_metainfo, and the write is inside that domain.
Write(view, new_metainfo) ==
    /\ region_is_superset(get_region(view), get_domain(new_metainfo).region)
    /\ metainfo' =
          IF view.kind = "store"
          THEN store_write(metainfo, new_metainfo)
          ELSE subview_write(metainfo, get_region(view), new_metainfo)
    /\ sv_op' = StoreOp("write", view)
    /\ UNCHANGED nonStoreVars

\* view->reset_data(subregion, new_metainfo, ...), called as its
\* preconditions require, for a subregion inside the view's region.
ResetData(view, new_metainfo) ==
    /\ region_is_superset(get_region(view), get_domain(new_metainfo).region)
    /\ metainfo' =
          IF view.kind = "store"
          THEN store_reset_data(metainfo, new_metainfo)
          ELSE subview_reset_data(metainfo, get_region(view), new_metainfo)
    /\ sv_op' = StoreOp("reset_data", view)
    /\ UNCHANGED nonStoreVars

StoreStep ==
    \/ \E view \in Views, new_metainfo \in MetainfoInputs :
          SetMetainfo(view, new_metainfo)
    \/ \E view \in Views, new_metainfo \in MetainfoInputs :
          Write(view, new_metainfo)
    \/ \E view \in Views, new_metainfo \in MetainfoInputs :
          ResetData(view, new_metainfo)

Builds == {"debug", "release"}

\* rassert(cond): compiled in a debug build, where a failed assertion ends
\* the program; compiled out of a release build.  TRUE when execution goes
\* on past the assertion.
rassert(b, condition) == b = "release" \/ condition

\* The assertions of store_subview_t's operations, in a subview of region r.
subview_set_metainfo_rasserts(b, r, new) ==
    rassert(b, region_is_superset(r, new))

subview_read_rasserts(b, r, expected) ==
    rassert(b, region_is_superset(r, expected))

\* Faulty variant: write checks the expected metainfo only.
subview_write_rasserts_expected_only(b, r, expected, new) ==
    rassert(b, region_is_superset(r, expected))

subview_write_rasserts(b, r, expected, new) ==
    /\ rassert(b, region_is_superset(r, expected))
    /\ rassert(b, region_is_superset(r, new))

subview_send_backfill_rasserts(b, r, start_point) ==
    rassert(b, region_is_superset(r, start_point))

subview_receive_backfill_rasserts(b, r) == TRUE

subview_reset_data_rasserts(b, r, subregion, new) ==
    /\ rassert(b, region_is_superset(r, subregion))
    /\ rassert(b, region_is_superset(r, new))

\* The preconditions that store_view_t states for its operations, for a
\* view of region r.
set_metainfo_precondition(r, new) == region_is_superset(r, new)

read_precondition(r, expected, read) ==
    /\ region_is_superset(r, expected)
    /\ region_is_superset(expected, read)

write_precondition(r, expected, new, write) ==
    /\ region_is_superset(r, expected)
    /\ new = expected
    /\ region_is_superset(expected, write)

send_backfill_precondition(r, start_point) ==
    region_is_superset(r, start_point)

reset_data_precondition(r, subregion) == region_is_superset(r, subregion)

\* A call through the subview: the operation, the subview's region, the
\* domain of expected_metainfo (or of start_point), the domain of
\* new_metainfo, the region of the read or write (or the subregion), and
\* whether the call was passed on to the parent ("delegated") or ended in a
\* failed assertion ("asserted").
SubCall(op, r, expected, new, target, passed) ==
    [op |-> op, region |-> r, expected |-> expected, new |-> new,
     target |-> target,
     outcome |-> IF passed THEN "delegated" ELSE "asserted"]

NoSubview ==
    [op |-> "none", region |-> region_empty, expected |-> region_empty,
     new |-> region_empty, target |-> region_empty, outcome |-> "none"]

InitSub ==
    /\ build = "unset"
    /\ sub_call = NoSubview

\* The program is built, with or without its assertions.
Compile(b) ==
    /\ build = "unset"
    /\ build' = b
    /\ UNCHANGED sub_call
    /\ UNCHANGED nonSubVars

\* store_subview_t::store_subview_t over the store, whose region is the
\* keyspace: the constructor's assertion holds for every region.
SubviewNew(r) ==
    /\ build # "unset"
    /\ sub_call.op = "none"
    /\ rassert(build, region_is_superset(get_region(RootView), r))
    /\ sub_call' = [NoSubview EXCEPT !.op = "new", !.region = r]
    /\ UNCHANGED build
    /\ UNCHANGED nonSubVars

\* The calls: each takes its arguments from the regions.
SubviewSetMetainfo ==
    /\ sub_call.op = "new"
    /\ \E new \in Regions :
          LET r == sub_call.region
          IN sub_call' =
                SubCall("set_metainfo", r, region_empty, new, region_empty,
                        subview_set_metainfo_rasserts(build, r, new))
    /\ UNCHANGED build
    /\ UNCHANGED nonSubVars

SubviewRead ==
    /\ sub_call.op = "new"
    /\ \E expected, read \in Regions :
          LET r == sub_call.region
          IN sub_call' =
                SubCall("read", r, expected, region_empty, read,
                        subview_read_rasserts(build, r, expected))
    /\ UNCHANGED build
    /\ UNCHANGED nonSubVars

SubviewWrite ==
    /\ sub_call.op = "new"
    /\ \E expected, new, write \in Regions :
          LET r == sub_call.region
          IN sub_call' =
                SubCall("write", r, expected, new, write,
                        subview_write_rasserts(build, r, expected, new))
    /\ UNCHANGED build
    /\ UNCHANGED nonSubVars

SubviewSendBackfill ==
    /\ sub_call.op = "new"
    /\ \E start_point \in Regions :
          LET r == sub_call.region
          IN sub_call' =
                SubCall("send_backfill", r, start_point, region_empty,
                        region_empty,
                        subview_send_backfill_rasserts(build, r,
                                                       start_point))
    /\ UNCHANGED build
    /\ UNCHANGED nonSubVars

SubviewReceiveBackfill ==
    /\ sub_call.op = "new"
    /\ LET r == sub_call.region
       IN sub_call' =
             SubCall("receive_backfill", r, region_empty, region_empty,
                     region_empty,
                     subview_receive_backfill_rasserts(build, r))
    /\ UNCHANGED build
    /\ UNCHANGED nonSubVars

SubviewResetData ==
    /\ sub_call.op = "new"
    /\ \E subregion, new \in Regions :
          LET r == sub_call.region
          IN sub_call' =
                SubCall("reset_data", r, region_empty, new, subregion,
                        subview_reset_data_rasserts(build, r, subregion,
                                                    new))
    /\ UNCHANGED build
    /\ UNCHANGED nonSubVars

SubStep ==
    \/ \E b \in Builds : Compile(b)
    \/ \E r \in Regions \ {region_empty} : SubviewNew(r)
    \/ SubviewSetMetainfo
    \/ SubviewRead
    \/ SubviewWrite
    \/ SubviewSendBackfill
    \/ SubviewReceiveBackfill
    \/ SubviewResetData

(***************************************************************************)
(* Properties of the subview's assertions (specification SpecSub).         *)
(***************************************************************************)
\* The preconditions of the store-view contract, for the call c.
ContractHolds(c) ==
    CASE c.op = "set_metainfo" -> set_metainfo_precondition(c.region, c.new)
      [] c.op = "read" ->
            read_precondition(c.region, c.expected, c.target)
      [] c.op = "write" ->
            write_precondition(c.region, c.expected, c.new, c.target)
      [] c.op = "send_backfill" ->
            send_backfill_precondition(c.region, c.expected)
      [] c.op = "reset_data" ->
            /\ reset_data_precondition(c.region, c.target)
            /\ region_is_superset(c.region, c.new)
      [] OTHER -> TRUE

\* The preconditions that compare an argument with the view's region.
RegionContractHolds(c) ==
    /\ region_is_superset(c.region, c.expected)
    /\ region_is_superset(c.region, c.new)
    /\ c.op = "reset_data" => region_is_superset(c.region, c.target)

\* C21 as stated - a call through a subview reaches the parent only if
\* every precondition of the store-view contract holds of it.
C21_AllPreconditionsEnforced ==
    sub_call.outcome = "delegated" => ContractHolds(sub_call)

\* C21 (amended) - in a build with assertions, a call through a subview of
\* region r reaches the parent exactly if r contains every domain and
\* subregion the call is given (for receive_backfill, always); a call whose
\* read or write region lies outside the domain of the expected metainfo,
\* or whose new metainfo has another domain than the expected one, reaches
\* the parent as well.  In a build without assertions every call does.
C21_RegionPreconditionsEnforced ==
    /\ build = "debug" /\ sub_call.outcome = "delegated"
       => RegionContractHolds(sub_call)
    /\ build = "debug" /\ sub_call.outcome = "asserted"
       => ~RegionContractHolds(sub_call)
    /\ build = "release" => sub_call.outcome # "asserted"

\* In a debug build, a write whose new metainfo left the subview's region
\* was stopped by the assertion.
C21_Witness ==
    /\ build = "debug"
    /\ sub_call.op = "write"
    /\ sub_call.outcome = "asserted"
    /\ region_is_superset(sub_call.region, sub_call.expected)
    /\ ~region_is_superset(sub_call.region, sub_call.new)

(***************************************************************************)
(*                       TEARDOWN OF THE MASTER                            *)
(***************************************************************************)
Handlers == 1..MaxHandlers

\* Faulty variant: the dispatcher declared after the drainer.
master_members_dispatcher_after_drainer ==
    <<"cluster", "branch_id", "drainer", "mirror_dispatcher",
      "read_mailbox", "write_mailbox", "advertisement">>

\* The data members of master_t, in the order of their declaration.
master_members ==
    <<"cluster", "branch_id", "mirror_dispatcher", "drainer",
      "read_mailbox", "write_mailbox", "advertisement">>

\* ~master_t destroys the members in the reverse of that order.
destruction_order ==
    [i \in DOMAIN master_members |->
        master_members[Len(master_members) + 1 - i]]

\* The members destroyed so far, and whether member mb still exists.
Destroyed(n) == {destruction_order[i] : i \in 1..n}
Exists(mb) == mb \notin Destroyed(destroyed)

\* An auto_drainer_t::lock_t: the one a mailbox's callback was bound with,
\* or the copy that handler h was started with.
MailboxLock(mb) == [of |-> mb, h |-> 0]
HandlerLock(h) == [of |-> "handler", h |-> h]

\* The locks left when the first n members are destroyed: a mailbox takes
\* the lock of its callback with it.
locks_left(locks, n) == {l \in locks : l.of \notin Destroyed(n)}

\* ~auto_drainer_t blocks while a lock is held; no other destructor here
\* suspends.  The destructor, having destroyed n members, runs on to the
\* member at which it blocks, or to the end.
RECURSIVE run_destructor(_, _)
run_destructor(n, locks) ==
    IF n = Len(destruction_order) THEN n
    ELSE IF destruction_order[n + 1] = "drainer"
            /\ locks_left(locks, n) # {}
    THEN n
    ELSE run_destructor(n + 1, locks)

\* The destructor has begun and has not finished: it is blocked.
Draining == destroyed > 0 /\ destroyed < Len(destruction_order)

NoHandler == [kind |-> "none", pc |-> "idle"]

\* After master_t::master_t: every member exists and each mailbox holds the
\* lock its callback was bound with.
InitDown ==
    /\ destroyed = 0
    /\ keepalive = {MailboxLock("read_mailbox"), MailboxLock("write_mailbox")}
    /\ handler = [h \in Handlers |-> NoHandler]

\* ~master_t is entered and runs until the drainer blocks it.
MasterDestroy ==
    /\ destroyed = 0
    /\ LET n == run_destructor(0, keepalive)
       IN /\ destroyed' = n
          /\ keepalive' = locks_left(keepalive, n)
    /\ UNCHANGED handler
    /\ UNCHANGED nonDownVars

\* The last lock is gone: ~auto_drainer_t returns and the destructor runs on.
DrainerResume ==
    /\ Draining
    /\ keepalive = {}
    /\ LET n == run_destructor(destroyed, keepalive)
       IN /\ destroyed' = n
          /\ keepalive' = locks_left(keepalive, n)
    /\ UNCHANGED handler
    /\ UNCHANGED nonDownVars

\* A message for the read or the write mailbox arrives: if the mailbox
\* exists its callback is started with a copy of the mailbox's lock;
\* otherwise the message is dropped.
Deliver(h, kind) ==
    /\ handler[h].pc = "idle"
    /\ LET mailbox == IF kind = "read" THEN "read_mailbox"
                      ELSE "write_mailbox"
       IN IF Exists(mailbox)
          THEN /\ handler' = [handler EXCEPT
                     ![h] = [kind |-> kind, pc |-> "started"]]
               /\ keepalive' = keepalive \cup {HandlerLock(h)}
          ELSE /\ handler' = [handler EXCEPT
                     ![h] = [kind |-> kind, pc |-> "dropped"]]
               /\ UNCHANGED keepalive
    /\ UNCHANGED destroyed
    /\ UNCHANGED nonDownVars

\* on_read / on_write: keepalive.assert_is_holding(&drainer) and the call
\* of mirror_dispatcher->read() or write(), which suspends.
HandlerCall(h) ==
    /\ handler[h].pc = "started"
    /\ HandlerLock(h) \in keepalive
    /\ handler' = [handler EXCEPT ![h].pc = "await"]
    /\ UNCHANGED <<destroyed, keepalive>>
    /\ UNCHANGED nonDownVars

\* The dispatcher's call ends, the handler replies and returns; its
\* keepalive goes out of scope.
HandlerReturn(h) ==
    /\ handler[h].pc = "await"
    /\ handler' = [handler EXCEPT ![h].pc = "done"]
    /\ keepalive' = keepalive \ {HandlerLock(h)}
    /\ UNCHANGED destroyed
    /\ UNCHANGED nonDownVars

DownStep ==
    \/ MasterDestroy
    \/ DrainerResume
    \/ \E h \in Handlers, kind \in {"read", "write"} : Deliver(h, kind)
    \/ \E h \in Handlers : HandlerCall(h)
    \/ \E h \in Handlers : HandlerReturn(h)

(***************************************************************************)
(* Properties of the teardown (specification SpecDown).                    *)
(***************************************************************************)
InFlight == {h \in Handlers : handler[h].pc \in {"started", "await"}}

\* C23 - a handler in flight finds the dispatcher in existence at every
\* step it takes; no delivery starts a handler once the destructor has
\* begun; the dispatcher is destroyed only after the drainer, and the
\* drainer only after both mailboxes and when no handler is in flight and
\* no lock is held.
C23_TeardownOrder ==
    /\ [](/\ InFlight # {} => Exists("mirror_dispatcher")
          /\ ~Exists("mirror_dispatcher") => ~Exists("drainer")
          /\ ~Exists("drainer")
             => /\ ~Exists("read_mailbox") /\ ~Exists("write_mailbox")
                /\ InFlight = {}
                /\ keepalive = {})
    /\ [][\A h \in Handlers :
             /\ handler'[h].pc = "started" /\ handler[h].pc # "started"
                => destroyed = 0
             /\ handler[h].pc \in {"started", "await"}
                /\ handler'[h] # handler[h]
                => Exists("mirror_dispatcher")]_vars

\* The destructor waits at the drainer for a write that is in flight; the
\* mailboxes are gone and a message that came since was dropped.
C23_Witness ==
    /\ Draining
    /\ Destroyed(destroyed) =
          {"advertisement", "write_mailbox", "read_mailbox"}
    /\ \E h, i \in Handlers :
          /\ handler[h] = [kind |-> "write", pc |-> "await"]
          /\ handler[i].pc = "dropped"

(***************************************************************************)
(*                                cond_t                                   *)
(***************************************************************************)
Threads == 1..NumThreads
Conds == 1..NumConds

\* Faulty variant: a pulse() that calls do_pulse() where it is.
pulse_thread_of_caller(home, caller) == caller

\* cond_t::pulse: the thread that do_pulse is sent to.
pulse_thread(home, caller) == home

\* do_on_thread(thread, fun) called on thread `caller`: on the thread
\* itself fun runs at once; otherwise a message goes to the thread, fun
\* runs there when the message is handled, and the caller is resumed after.
do_on_thread_is_local(thread, caller) == thread = caller

NoCond ==
    [home |-> 0, pulsed |-> FALSE, changed_on |-> {}, pc |-> "unborn",
     caller |-> 0, target |-> 0]

InitCond == cond = [c \in Conds |-> NoCond]

\* A cond_t is constructed on a thread, which is its home thread.
CondNew(c, t) ==
    /\ cond[c].pc = "unborn"
    /\ cond' = [cond EXCEPT ![c].home = t, ![c].pc = "idle"]
    /\ UNCHANGED nonCondVars

\* cond_t::do_pulse, run on thread t: signal_t::pulse().
do_pulse(q, t) == [q EXCEPT !.pulsed = TRUE, !.changed_on = @ \cup {t}]

\* cond_t::pulse called on thread t.
CondPulse(c, t) ==
    /\ cond[c].pc = "idle"
    /\ LET thread == pulse_thread(cond[c].home, t)
           q == [cond[c] EXCEPT !.caller = t, !.target = thread]
       IN cond' = [cond EXCEPT ![c] =
              IF do_on_thread_is_local(thread, t)
              THEN [do_pulse(q, thread) EXCEPT !.pc = "done"]
              ELSE [q EXCEPT !.pc = "sent"]]
    /\ UNCHANGED nonCondVars

\* The thread that the message went to handles it: do_pulse runs there.
CondDoPulse(c) ==
    /\ cond[c].pc = "sent"
    /\ cond' = [cond EXCEPT
          ![c] = [do_pulse(cond[c], cond[c].target) EXCEPT !.pc = "back"]]
    /\ UNCHANGED nonCondVars

\* The caller is resumed on its own thread and pulse() returns.
CondPulseReturn(c) ==
    /\ cond[c].pc = "back"
    /\ cond' = [cond EXCEPT ![c].pc = "done"]
    /\ UNCHANGED nonCondVars

CondStep ==
    \/ \E c \in Conds, t \in Threads : CondNew(c, t)
    \/ \E c \in Conds, t \in Threads : CondPulse(c, t)
    \/ \E c \in Conds : CondDoPulse(c)
    \/ \E c \in Conds : CondPulseReturn(c)

(***************************************************************************)
(* Properties of cond_t (specification SpecCond).                          *)
(***************************************************************************)
\* C24 - the state of a condition is changed on its home thread only: a
\* pulse() called on another thread changes nothing in the step of the
\* call, and do_pulse runs on the home thread; and every call of pulse()
\* leads to the condition being pulsed.
C24_PulseOnHomeThread ==
    /\ [](\A c \in Conds : cond[c].changed_on \subseteq {cond[c].home})
    /\ [][\A c \in Conds :
             /\ cond[c].pc = "idle" /\ cond'[c].pc # "idle"
                /\ cond'[c].caller # cond[c].home
                => /\ cond'[c].pulsed = cond[c].pulsed
                   /\ cond'[c].pc = "sent"
                   /\ cond'[c].target = cond[c].home
             /\ cond'[c].pulsed # cond[c].pulsed
                => cond'[c].changed_on = {cond[c].home}]_vars
    /\ \A c \in Conds :
          (cond[c].pc \in {"sent", "back", "done"}) ~> cond[c].pulsed

\* A condition whose pulse() was called on another thread than its home
\* thread is pulsed, and the caller has been resumed.
C24_Witness ==
    \E c \in Conds :
        /\ cond[c].pc = "done"
        /\ cond[c].pulsed
        /\ cond[c].caller # cond[c].home
        /\ cond[c].changed_on = {cond[c].home}

(***************************************************************************)
(*                          one_waiter_cond_t                              *)
(***************************************************************************)
OneWaiterConds == 1..NumOneWaiterConds

\* The coroutine that waits (there is one per object), and no coroutine.
Self == 1
NULL == 0

\* Faulty variant: a pulse() that clears waiter_ after the notification.
pulse_statements_clear_last == <<"copy", "notify_now", "clear">>

\* one_waiter_cond_t::pulse, inside `if (waiter_)`: tmp = waiter_;
\* waiter_ = NULL; tmp->notify_now().
pulse_statements == <<"copy", "clear", "notify_now">>

NoOwc ==
    [exists |-> TRUE, pulsed_ |-> FALSE, waiter_ |-> NULL, tmp |-> NULL,
     wait_pc |-> "idle", slept |-> FALSE, pulse_pc |-> "idle", next |-> 0,
     notified |-> 0, freed_access |-> FALSE]

InitOwc == owc = [c \in OneWaiterConds |-> NoOwc]

\* A statement that reads or writes a field of the object: if the object
\* has been destroyed, that is an access to freed memory.
touch(q) == [q EXCEPT !.freed_access = @ \/ ~q.exists]

\* One statement of pulse().  notify_now() resumes the coroutine at once.
exec(q, st) ==
    CASE st = "copy" -> [touch(q) EXCEPT !.tmp = q.waiter_]
      [] st = "clear" -> [touch(q) EXCEPT !.waiter_ = NULL]
      [] st = "notify_now" ->
            [q EXCEPT !.wait_pc = "woken", !.notified = @ + 1]

\* pulse() from its i-th statement on: it runs until notify_now() has
\* switched to the waiter, or to its end.
RECURSIVE run_pulse(_, _)
run_pulse(q, i) ==
    IF i > Len(pulse_statements) THEN [q EXCEPT !.pulse_pc = "done"]
    ELSE LET st == pulse_statements[i]
             after == exec(q, st)
         IN IF st = "notify_now"
            THEN [after EXCEPT !.pulse_pc = "notifying", !.next = i + 1]
            ELSE run_pulse(after, i + 1)

\* one_waiter_cond_t::wait_eagerly, up to coro_t::wait().
wait_eagerly(q) ==
    IF ~q.pulsed_
    THEN [q EXCEPT !.waiter_ = Self, !.wait_pc = "waiting",
                   !.slept = TRUE]
    ELSE [q EXCEPT !.wait_pc = "returned"]

\* one_waiter_cond_t::pulse, up to the notification.
pulse(q) ==
    LET marked == [q EXCEPT !.pulsed_ = TRUE]
    IN IF marked.waiter_ # NULL THEN run_pulse(marked, 1)
       ELSE [marked EXCEPT !.pulse_pc = "done"]

\* wait_eagerly() is called; its assertion holds: no one waits yet.
OwcWaitEagerly(c) ==
    /\ owc[c].exists
    /\ owc[c].wait_pc = "idle"
    /\ owc[c].waiter_ = NULL
    /\ owc' = [owc EXCEPT ![c] = wait_eagerly(owc[c])]
    /\ UNCHANGED nonOwcVars

\* pulse() is called; its assertion holds: it was not called before.
OwcPulse(c) ==
    /\ owc[c].exists
    /\ owc[c].pulse_pc = "idle"
    /\ ~owc[c].pulsed_
    /\ owc' = [owc EXCEPT ![c] = pulse(owc[c])]
    /\ UNCHANGED nonOwcVars

\* The notified waiter runs on after coro_t::wait(): rassert(pulsed_), and
\* wait_eagerly() returns.
OwcWake(c) ==
    /\ owc[c].wait_pc = "woken"
    /\ owc' = [owc EXCEPT ![c] = [touch(owc[c]) EXCEPT
                                     !.wait_pc = "returned"]]
    /\ UNCHANGED nonOwcVars

\* The waiter, wait_eagerly() having returned, destroys the object.
OwcDestroy(c) ==
    /\ owc[c].exists
    /\ owc[c].wait_pc = "returned"
    /\ owc' = [owc EXCEPT ![c].exists = FALSE]
    /\ UNCHANGED nonOwcVars

\* The waiter has yielded: notify_now() returns and pulse() runs to its end.
OwcPulseReturn(c) ==
    /\ owc[c].pulse_pc = "notifying"
    /\ owc[c].wait_pc # "woken"
    /\ owc' = [owc EXCEPT ![c] = run_pulse(owc[c], owc[c].next)]
    /\ UNCHANGED nonOwcVars

OwcStep ==
    \/ \E c \in OneWaiterConds : OwcWaitEagerly(c)
    \/ \E c \in OneWaiterConds : OwcPulse(c)
    \/ \E c \in OneWaiterConds : OwcWake(c)
    \/ \E c \in OneWaiterConds : OwcDestroy(c)
    \/ \E c \in OneWaiterConds : OwcPulseReturn(c)

(***************************************************************************)
(* Properties of one_waiter_cond_t (specification SpecOwc).                *)
(***************************************************************************)
\* C25 - wait_eagerly() has returned only if pulse() was called, and it
\* returns in the step of its call when pulse() was called before; a waiter
\* that slept is notified exactly once and no other is notified; at the
\* notification waiter_ is already NULL, and no statement of pulse()
\* touches the object after the waiter destroyed it; when both have been
\* called, wait_eagerly() returns.
C25_OneWaiterCond ==
    /\ [](\A c \in OneWaiterConds :
            LET q == owc[c]
            IN /\ q.wait_pc = "returned" => q.pulse_pc # "idle"
               /\ q.notified <= 1
               /\ q.notified = 1 <=> q.slept /\ q.pulse_pc # "idle"
               /\ q.notified = 1 => q.waiter_ = NULL /\ q.tmp = Self
               /\ q.wait_pc = "waiting" => q.waiter_ = Self
               /\ ~q.freed_access)
    /\ [][\A c \in OneWaiterConds :
             owc[c].wait_pc = "idle" /\ owc'[c].wait_pc # "idle"
             => (owc'[c].wait_pc = "returned" <=> owc[c].pulse_pc # "idle")]_vars
    /\ \A c \in OneWaiterConds :
          (owc[c].wait_pc # "idle" /\ owc[c].pulse_pc # "idle")
              ~> owc[c].wait_pc = "returned"

\* The woken waiter has destroyed the object while pulse() is still inside
\* notify_now().
C25_Witness ==
    \E c \in OneWaiterConds :
        /\ ~owc[c].exists
        /\ owc[c].wait_pc = "returned"
        /\ owc[c].slept
        /\ owc[c].notified = 1
        /\ owc[c].pulse_pc = "notifying"

(***************************************************************************)
(*                           SPECIFICATIONS                                *)
(***************************************************************************)
InitAll ==
    /\ InitDisp /\ InitFifo /\ InitReg /\ InitMap /\ InitStore /\ InitSub
    /\ InitDown /\ InitCond /\ InitOwc

\* The master, the dispatcher and the mirrors.
Next == DispStep

Spec == InitAll /\ [][Next]_vars

\* The FIFO token enforcer.
NextFifo == FifoStep

SpecFifo == InitAll /\ [][NextFifo]_vars

\* The registrants and their registrar.
NextReg == RegStep

SpecReg == InitAll /\ [][NextReg]_vars

\* The region map.
NextMap == MapStep

SpecMap == InitAll /\ [][NextMap]_vars

\* The region map and its comparison.
NextMapEq ==
    \/ MapStep
    \/ MapCompare

SpecMapEq == InitAll /\ [][NextMapEq]_vars

\* The store, its views and subviews.
NextStore == StoreStep

SpecStore == InitAll /\ [][NextStore]_vars

\* The calls through a store subview.
NextSub == SubStep

SpecSub == InitAll /\ [][NextSub]_vars

\* The teardown of the master.
NextDown == DownStep

SpecDown == InitAll /\ [][NextDown]_vars

\* cond_t; every thread goes on handling the messages sent to it.
NextCond == CondStep

SpecCond ==
    /\ InitAll
    /\ [][NextCond]_vars
    /\ \A c \in Conds : WF_vars(CondDoPulse(c))

\* one_waiter_cond_t; a notified coroutine runs.
NextOwc == OwcStep

SpecOwc ==
    /\ InitAll
    /\ [][NextOwc]_vars
    /\ \A c \in OneWaiterConds : WF_vars(OwcWake(c))

=============================================================================
